---- MODULE Spec2Model ----
(***************************************************************************)
(* Model of the styled-text layout, pagination and polling code of        *)
(* ficopdfgen.                                                             *)
(*                                                                         *)
(* The repository holds several variants of the same tool.  Six groups     *)
(* of code are modelled, each with its own variables and specification:    *)
(*                                                                         *)
(*   SpecLine    writeFormattedLine, the delimiter-toggle scanner          *)
(*               (src/ficopdfgen/main.go:187-243)                          *)
(*   SpecInline  writeFormattedLineInline, the word-wrapping line writer,  *)
(*               in its two variants (src/unnamed/part_001:168-232 and     *)
(*               src/ficopdfgen/main.go:473-548)                           *)
(*   SpecParse   parseStyled, the tag parser, with the font table that     *)
(*               generatePDF builds (src/unnamed/part_001:751-790)         *)
(*   SpecReport  wrap, writeText and writeTable as driven by generatePDF   *)
(*               (src/unnamed/part_001:719-910)                            *)
(*   SpecCsv     csvToPDF in its fixed-line-height variants                *)
(*               (src/ficopdfgen/main.go:263-289,                          *)
(*               src/unnamed/part_000:202-229, src/unnamed/part_001:247-277)*)
(*   SpecPoll    main's polling loop with processFile and the uploads, in  *)
(*               the SSH and the SFTP variant                              *)
(*               (src/ficopdfgen/main.go:45-175, 353-462 and 646-683)      *)
(*                                                                         *)
(* Text is a sequence of bytes, one-character strings for ASCII and two    *)
(* hexadecimal digits otherwise.  Indices named i are the                  *)
(* 0-based indices of the Go code; sequences are 1-based, so line[i] of    *)
(* the code is line[i + 1] here.                                           *)
(***************************************************************************)
EXTENDS Integers, Sequences, FiniteSets, TLC

VARIABLES
    \* writeFormattedLine
    wRules,      \* cfg.Rules
    wLine,       \* line
    wI,          \* i, the scan index
    wBuf,        \* buf, the pending run
    wFont,       \* currentFont
    wWrites,     \* the (text, font) pairs handed to pdf.SetFont / pdf.Write
    wPc,         \* "scan" while the for loop runs, "done" after the return
    \* writeFormattedLineInline
    nVariant,    \* which variant runs: "part_001" or "main.go"
    nRules,      \* cfg.Rules
    nCharW,      \* the width pdf.GetStringWidth gives one byte
    nWords,      \* the words of the line not yet taken by the range loop
    nWord,       \* word, what is left of the current word
    nFont,       \* font, the font of the current word
    nCursorX,    \* cursorX
    nY,          \* y
    nDrawn,      \* the non-empty fragments handed to pdf.Write, with their place
    nPc,         \* "idle", "word", "loop", "panic" or "done"
    \* parseStyled called on one line
    pLine,       \* line
    pRules,      \* rules
    pOut,        \* the parts returned
    pVariant,    \* which parseStyled ran: "part_001" or "main.go"; "" before the call
    pPc,         \* "idle", "call" or "returned"
    \* generatePDF: writeText, then writeTable
    rPage,       \* the page size [w, h] that pageSize(style) returned
    rContent,    \* content, the text writeText was called with
    rTable,      \* <<[headers, rows]>> once writeTable is called with them, else <<>>
    rRules,      \* rules, the font of "normal", "bold" and "italic"
    rLines,      \* the lines of content the range loop has not taken yet
    rParts,      \* the parts of the current line not taken yet
    rFont,       \* p.Font of the part being drawn
    rWrapped,    \* the wrapped lines of the current part not drawn yet
    rRows,       \* the rows of the table not drawn yet
    rColCount,   \* colCount of writeTable
    rY,          \* y
    rPages,      \* the number of pages of the document
    rDrawn,      \* what was drawn (pdf.Text, pdf.CellWithOption), and where
    rPc,         \* "idle", "line", "part", "wrap", "returned", "rows", "done"
    \* csvToPDF
    cVariant,    \* which variant runs: "main.go:263", "part_000:202" or "part_001:247"
    cData,       \* data, as the lines of the CSV text, each a sequence of fields
    cRows,       \* the records the range loop has not taken yet
    cColCount,   \* len(records[0]), the divisor of the column width
    cY,          \* y
    cDrawn,      \* the cells drawn, and where
    cPc,         \* "idle", "start", "rows", "returned", "error" or "panic"
    \* main's polling loop, processFile and the uploads
    mVariant,    \* "ssh" or "sftp": which main of the sources runs
    mSources,    \* the source files present in cfg.RemoteDirectory
    mPdfs,       \* what each PDF name holds there: "absent", "empty" or "pdf"
    mLocal,      \* the PDF names present in os.TempDir()
    mFiles,      \* the rest of files that the range loop has yet to visit
    mProcs,      \* the goroutines running: [file, cycle, pc, tracked]
    mCycle,      \* how many ticks of ticker.C the loop has taken
    mPc          \* "idle", "tick", "range" or "panic"

wvars == <<wRules, wLine, wI, wBuf, wFont, wWrites, wPc>>

nvars == <<nVariant, nRules, nCharW, nWords, nWord, nFont, nCursorX, nY, nDrawn, nPc>>

pvars == <<pLine, pRules, pOut, pVariant, pPc>>

rvars == <<rPage, rContent, rTable, rRules, rLines, rParts, rFont, rWrapped, rRows, rColCount,
           rY, rPages, rDrawn, rPc>>

cvars == <<cVariant, cData, cRows, cColCount, cY, cDrawn, cPc>>

mvars == <<mVariant, mSources, mPdfs, mLocal, mFiles, mProcs, mCycle, mPc>>

vars == <<wvars, nvars, pvars, rvars, cvars, mvars>>

\* what each group of code leaves alone: the variables of the other groups
notLine == <<nvars, pvars, rvars, cvars, mvars>>

notInline == <<wvars, pvars, rvars, cvars, mvars>>

notParse == <<wvars, nvars, rvars, cvars, mvars>>

notReport == <<wvars, nvars, pvars, cvars, mvars>>

notCsv == <<wvars, nvars, pvars, rvars, mvars>>

notPoll == <<wvars, nvars, pvars, rvars, cvars>>

----------------------------------------------------------------------------
(* Bounds and input sets *)

\* longest input line of writeFormattedLine, in bytes
MaxLen == 5

\* bytes an input line is made of: a letter, the delimiter byte, a backslash
LineBytes == {"a", "*", "\\"}

\* delimiters a configured rule may have: an empty one, one that is a prefix
\* of another, and one that is the escape byte itself
Delimiters == {<<>>, <<"*">>, <<"*", "*">>, <<"\\">>}

RuleFonts == {"bold", "italic"}

\* type Rule struct { Name, Delimiter, Font }
Rule == [Delimiter : Delimiters, Font : RuleFonts]

\* cfg.Rules: every list of at most two rules
RuleLists == {<<>>} \cup {<<r>> : r \in Rule} \cup {<<r, s>> : r \in Rule, s \in Rule}

RECURSIVE SeqsUpTo(_, _)
SeqsUpTo(S, n) ==
    IF n = 0 THEN {<<>>}
    ELSE LET shorter == SeqsUpTo(S, n - 1)
         IN  shorter \cup {Append(s, c) : s \in {t \in shorter : Len(t) = n - 1}, c \in S}

----------------------------------------------------------------------------
(* writeFormattedLine, src/ficopdfgen/main.go:187-243 *)

\* i+len(d) <= len(line) && line[i:i+len(d)] == d
MatchAt(line, i, d) ==
    /\ i + Len(d) <= Len(line)
    /\ SubSeq(line, i + 1, i + Len(d)) = d

\* for _, r := range cfg.Rules { if <match at i> { ...; goto next } }:
\* the index of the first rule, from k on, whose delimiter is at i; 0 if none
RECURSIVE FirstRuleAt(_, _, _, _)
FirstRuleAt(rules, line, i, k) ==
    IF k > Len(rules) THEN 0
    ELSE IF MatchAt(line, i, rules[k].Delimiter) THEN k
    ELSE FirstRuleAt(rules, line, i, k + 1)

\* flush := func() { if buf.Len() == 0 { return }; SetFont; Write; buf.Reset() }
Flush(writes, buf, font) ==
    IF Len(buf) = 0 THEN writes
    ELSE Append(writes, [text |-> buf, font |-> font])

ToggleNoRevert(currentFont, ruleFont) == ruleFont

\* if currentFont == r.Font { currentFont = "normal" } else { currentFont = r.Font }
Toggle(currentFont, ruleFont) ==
    IF currentFont = ruleFont THEN "normal" ELSE ruleFont

EscapeAdvanceShort(i, d) == i + Len(d)

\* i += 1 + len(d)
EscapeAdvance(i, d) == i + 1 + Len(d)

\* the rule the escape branch (lines 209-218) takes at i, 0 if it is not taken
EscapeRule(rules, line, i) ==
    IF i < Len(line) /\ line[i + 1] = "\\"
    THEN FirstRuleAt(rules, line, i + 1, 1)
    ELSE 0

\* no call of writeFormattedLine is in progress
LineIdle ==
    /\ wRules = <<>>
    /\ wLine = <<>>
    /\ wI = 0
    /\ wBuf = <<>>
    /\ wFont = "normal"
    /\ wWrites = <<>>
    /\ wPc = "idle"

\* no call of writeFormattedLineInline is in progress
InlineIdle ==
    /\ nVariant = "part_001"
    /\ nRules = <<>>
    /\ nCharW = 0
    /\ nWords = <<>>
    /\ nWord = <<>>
    /\ nFont = "normal"
    /\ nCursorX = 0
    /\ nY = 0
    /\ nDrawn = <<>>
    /\ nPc = "idle"

\* no call of parseStyled is in progress
ParseIdle ==
    /\ pLine = <<>>
    /\ pRules = [normal |-> "", bold |-> "", italic |-> ""]
    /\ pOut = <<>>
    /\ pVariant = ""
    /\ pPc = "idle"

\* no call of generatePDF is in progress
ReportIdle ==
    /\ rPage = [w |-> 0, h |-> 0]
    /\ rContent = <<>>
    /\ rTable = <<>>
    /\ rRules = [normal |-> "", bold |-> "", italic |-> ""]
    /\ rLines = <<>>
    /\ rParts = <<>>
    /\ rFont = ""
    /\ rWrapped = <<>>
    /\ rRows = <<>>
    /\ rColCount = 0
    /\ rY = 0
    /\ rPages = 0
    /\ rDrawn = <<>>
    /\ rPc = "idle"

CsvIdle ==
    /\ cVariant = ""
    /\ cData = <<>>
    /\ cRows = <<>>
    /\ cColCount = 0
    /\ cY = 0
    /\ cDrawn = <<>>
    /\ cPc = "idle"

PollIdle ==
    /\ mVariant = ""
    /\ mSources = {}
    /\ mPdfs = <<>>
    /\ mLocal = {}
    /\ mFiles = <<>>
    /\ mProcs = {}
    /\ mCycle = 0
    /\ mPc = "idle"

\* x, y := pdf.GetXY(); currentFont := "normal"; var buf strings.Builder
LineInit ==
    /\ InlineIdle
    /\ ParseIdle
    /\ ReportIdle
    /\ CsvIdle
    /\ PollIdle
    /\ wRules \in RuleLists
    /\ wLine \in SeqsUpTo(LineBytes, MaxLen)
    /\ wI = 0
    /\ wBuf = <<>>
    /\ wFont = "normal"
    /\ wWrites = <<>>
    /\ wPc = "scan"

\* one iteration that takes the "Escaped delimiter" branch
WflEscape ==
    /\ wPc = "scan"
    /\ wI < Len(wLine)
    /\ EscapeRule(wRules, wLine, wI) # 0
    /\ LET d == wRules[EscapeRule(wRules, wLine, wI)].Delimiter
       IN  /\ wBuf' = wBuf \o d
           /\ wI' = EscapeAdvance(wI, d)
    /\ UNCHANGED <<wRules, wLine, wFont, wWrites, wPc, notLine>>

\* one iteration that takes the "Rule match" branch
WflRule ==
    /\ wPc = "scan"
    /\ wI < Len(wLine)
    /\ EscapeRule(wRules, wLine, wI) = 0
    /\ FirstRuleAt(wRules, wLine, wI, 1) # 0
    /\ LET r == wRules[FirstRuleAt(wRules, wLine, wI, 1)]
       IN  /\ wWrites' = Flush(wWrites, wBuf, wFont)
           /\ wBuf' = <<>>
           /\ wFont' = Toggle(wFont, r.Font)
           /\ wI' = wI + Len(r.Delimiter)
    /\ UNCHANGED <<wRules, wLine, wPc, notLine>>

\* one iteration that falls through to buf.WriteByte(line[i]); i++
WflByte ==
    /\ wPc = "scan"
    /\ wI < Len(wLine)
    /\ EscapeRule(wRules, wLine, wI) = 0
    /\ FirstRuleAt(wRules, wLine, wI, 1) = 0
    /\ wBuf' = Append(wBuf, wLine[wI + 1])
    /\ wI' = wI + 1
    /\ UNCHANGED <<wRules, wLine, wFont, wWrites, wPc, notLine>>

\* the loop condition i < len(line) fails: flush(); pdf.SetXY(x, y+lineHeight)
WflReturn ==
    /\ wPc = "scan"
    /\ wI >= Len(wLine)
    /\ wWrites' = Flush(wWrites, wBuf, wFont)
    /\ wBuf' = <<>>
    /\ wPc' = "done"
    /\ UNCHANGED <<wRules, wLine, wI, wFont, notLine>>

LineNext == WflEscape \/ WflRule \/ WflByte \/ WflReturn

SpecLine == LineInit /\ [][LineNext]_vars

----------------------------------------------------------------------------
(* Properties of writeFormattedLine *)

\* C1: every iteration of the scan loop strictly increases i and keeps it
\* within len(line), whatever the rules are.  (An iteration is a step that
\* stays in the loop.)
ScanIndexAdvances ==
    [][(wPc = "scan" /\ wPc' = "scan") => (wI' > wI /\ wI' <= Len(wLine))]_vars

\* the 0-based positions at which d occurs in line
Occurrences(line, d) == {p \in 0..(Len(line) - Len(d)) : MatchAt(line, p, d)}

\* an occurrence is escaped when the byte before it is a backslash
EscapedAt(line, p) == p > 0 /\ line[p] = "\\"

UnescapedOccurrences(line, d) == {p \in Occurrences(line, d) : ~EscapedAt(line, p)}

EscapedOccurrences(line, d) == {p \in Occurrences(line, d) : EscapedAt(line, p)}

\* s with every escape sequence (backslash, d) replaced by d
RECURSIVE UnescapeFrom(_, _, _)
UnescapeFrom(s, d, i) ==
    IF i >= Len(s) THEN <<>>
    ELSE IF s[i + 1] = "\\" /\ MatchAt(s, i + 1, d)
         THEN d \o UnescapeFrom(s, d, i + 1 + Len(d))
         ELSE <<s[i + 1]>> \o UnescapeFrom(s, d, i + 1)

Unescape(s, d) == UnescapeFrom(s, d, 0)

\* line = a D x D b with len(a) = la and len(x) = lx, D the delimiter of rule k:
\* D is not empty, its unescaped occurrences are exactly these two, no escape
\* sequence (a backslash and the occurrence of D after it) overlaps them, and
\* no other rule's delimiter occurs in line
ToggleForm(k, la, lx) ==
    LET d  == wRules[k].Delimiter
        p1 == la
        p2 == la + Len(d) + lx
    IN  /\ Len(d) > 0
        /\ p2 + Len(d) <= Len(wLine)
        /\ UnescapedOccurrences(wLine, d) = {p1, p2}
        /\ \A e \in EscapedOccurrences(wLine, d) :
              \A p \in {p1, p2} : e + Len(d) <= p \/ p + Len(d) <= e - 1
        /\ \A j \in DOMAIN wRules : j # k => Occurrences(wLine, wRules[j].Delimiter) = {}

\* the writes the toggle property promises for such a line (an empty text is
\* not written)
ToggleWrites(k, la, lx) ==
    LET d == wRules[k].Delimiter
        a == SubSeq(wLine, 1, la)
        x == SubSeq(wLine, la + Len(d) + 1, la + Len(d) + lx)
        b == SubSeq(wLine, la + 2 * Len(d) + lx + 1, Len(wLine))
        w(t, f) == IF t = <<>> THEN <<>> ELSE <<[text |-> Unescape(t, d), font |-> f]>>
    IN  w(a, "normal") \o w(x, wRules[k].Font) \o w(b, "normal")

\* C2: a line a D x D b with exactly two unescaped occurrences of one rule's
\* delimiter D and no other rule's delimiter is written as a in "normal", x in
\* the rule's font, b in "normal", in reading order.
ToggleProperty ==
    wPc = "done" =>
        \A k \in DOMAIN wRules : \A la \in 0..Len(wLine) : \A lx \in 0..Len(wLine) :
            ToggleForm(k, la, lx) => wWrites = ToggleWrites(k, la, lx)

\* a finished line  a D x D b  with a, x and b all non-empty
ToggleWitness ==
    /\ wPc = "done"
    /\ \E k \in DOMAIN wRules : \E la \in 1..Len(wLine) : \E lx \in 1..Len(wLine) :
          /\ ToggleForm(k, la, lx)
          /\ la + 2 * Len(wRules[k].Delimiter) + lx < Len(wLine)
          /\ Len(wWrites) = 3

\* the rules whose delimiter is at position i of the line
RulesAt(i) == {k \in DOMAIN wRules : MatchAt(wLine, i, wRules[k].Delimiter)}

Least(S) == CHOOSE k \in S : \A j \in S : k <= j

\* the scan loop is at a backslash
AtBackslash == wPc = "scan" /\ wI < Len(wLine) /\ wLine[wI + 1] = "\\"

\* the iteration appends t to the pending run, advances by n and changes
\* neither the font nor what has been written
Appends(t, n) ==
    /\ wBuf' = wBuf \o t
    /\ wI' = wI + n
    /\ wFont' = wFont
    /\ wWrites' = wWrites

\* C3 as stated: a backslash immediately followed by a rule's delimiter D
\* appends D to the pending run, advances past the backslash and D and keeps
\* the font, for every rule whose delimiter follows; a backslash followed by
\* no delimiter is kept as ordinary text.
EscapeAnyRule ==
    [][AtBackslash =>
          /\ \A k \in RulesAt(wI + 1) :
                Appends(wRules[k].Delimiter, 1 + Len(wRules[k].Delimiter))
          /\ RulesAt(wI + 1) = {} => Appends(<<"\\">>, 1)
      ]_vars

\* C3 amended: the delimiter appended and skipped is that of the first rule,
\* in declaration order, whose delimiter follows the backslash; a backslash
\* followed by no delimiter is kept as ordinary text unless it starts a
\* rule's delimiter itself.
EscapeFirstRule ==
    [][AtBackslash =>
          /\ RulesAt(wI + 1) # {} =>
                LET d == wRules[Least(RulesAt(wI + 1))].Delimiter
                IN  Appends(d, 1 + Len(d))
          /\ (RulesAt(wI + 1) = {} /\ RulesAt(wI) = {}) => Appends(<<"\\">>, 1)
      ]_vars

\* an escape has just been taken inside a styled run: the pending run ends
\* with the delimiter, the byte before it in the line is a backslash, the
\* scan is past both, and the font is still the rule font that was active
EscapeWitness ==
    /\ wPc = "scan"
    /\ wFont # "normal"
    /\ \E k \in DOMAIN wRules :
          LET d == wRules[k].Delimiter
          IN  /\ Len(d) > 0
              /\ wI >= 1 + Len(d)
              /\ wLine[wI - Len(d)] = "\\"
              /\ SubSeq(wLine, wI - Len(d) + 1, wI) = d
              /\ Len(wBuf) >= Len(d)
              /\ SubSeq(wBuf, Len(wBuf) - Len(d) + 1, Len(wBuf)) = d

----------------------------------------------------------------------------
(* writeFormattedLineInline, src/unnamed/part_001:168-232 ("part_001") and   *)
(* src/ficopdfgen/main.go:473-548 ("main.go").  The two variants share the   *)
(* word loop and the delimiter stripping and differ in the per-word loop     *)
(* and in the page checks.                                                   *)

\* longest input line of writeFormattedLineInline, in bytes
MaxInlineLen == 5

InlineBytes == {"a", "*", " "}

InlineRule ==
    { [Delimiter |-> <<"*">>, Font |-> "bold"],
      [Delimiter |-> <<"*", "*">>, Font |-> "italic"],
      [Delimiter |-> <<"*">>, Font |-> "italic"] }

InlineRuleLists ==
    {<<>>} \cup {<<r>> : r \in InlineRule} \cup {<<r, s>> : r \in InlineRule, s \in InlineRule}

\* pdf.GetPageSize() and pdf.GetMargins() of an A4 portrait page in cm, with
\* the library's default margins, rounded to whole units; lineHeight is the
\* 6.0 that txtToPDF passes (part_001) or cfg.FontSize * 1.2 with FontSize 5
Geometry ==
    [pageWidth |-> 21, pageHeight |-> 30,
     marginLeft |-> 1, marginTop |-> 1, marginRight |-> 1, marginBottom |-> 2,
     lineHeight |-> 6]

\* maxWidth := pageWidth - marginLeft - marginRight
maxWidth == Geometry.pageWidth - Geometry.marginLeft - Geometry.marginRight

\* widths of one byte: several bytes fit a line (4), one byte is as wide as
\* maxWidth (19), one byte is wider than maxWidth (20)
CharWidths == {4, 19, 20}

\* the x a call may start at: the left margin, or a column further right
StartXs == {Geometry.marginLeft, 13}

\* pdf.GetStringWidth(s) at the current font size
GetStringWidth(s, cw) == Len(s) * cw

\* strings.Fields(line): the maximal runs of non-space bytes
RECURSIVE FieldsFrom(_, _, _)
FieldsFrom(s, i, cur) ==
    IF i > Len(s) THEN (IF cur = <<>> THEN <<>> ELSE <<cur>>)
    ELSE IF s[i] = " "
         THEN (IF cur = <<>> THEN <<>> ELSE <<cur>>) \o FieldsFrom(s, i + 1, <<>>)
         ELSE FieldsFrom(s, i + 1, Append(cur, s[i]))

Fields(s) == FieldsFrom(s, 1, <<>>)

\* strings.HasPrefix(word, d)
HasPrefix(word, d) == Len(d) <= Len(word) /\ SubSeq(word, 1, Len(d)) = d

\* strings.HasSuffix(word, d)
HasSuffix(word, d) ==
    Len(d) <= Len(word) /\ SubSeq(word, Len(word) - Len(d) + 1, Len(word)) = d

\* for _, r := range cfg.Rules { if HasPrefix && HasSuffix { font = r.Font;
\*     word = word[len(r.Delimiter) : len(word)-len(r.Delimiter)] } }
\* from rule k on.  The slice expression panics when its low bound exceeds
\* its high bound.
RECURSIVE StripFrom(_, _, _, _)
StripFrom(word, font, rules, k) ==
    IF k > Len(rules) THEN [word |-> word, font |-> font, panic |-> FALSE]
    ELSE LET d == rules[k].Delimiter
         IN  IF HasPrefix(word, d) /\ HasSuffix(word, d)
             THEN IF Len(d) > Len(word) - Len(d)
                  THEN [word |-> word, font |-> rules[k].Font, panic |-> TRUE]
                  ELSE StripFrom(SubSeq(word, Len(d) + 1, Len(word) - Len(d)),
                                 rules[k].Font, rules, k + 1)
             ELSE StripFrom(word, font, rules, k + 1)

\* part_001:195-201: the longest prefix whose width is within remainingWidth
\* (the loop stops at the first prefix that is too wide), 0 if none
RECURSIVE FitWithin(_, _, _, _)
FitWithin(word, cw, limit, i) ==
    IF i > Len(word) \/ GetStringWidth(SubSeq(word, 1, i), cw) > limit
    THEN i - 1
    ELSE FitWithin(word, cw, limit, i + 1)

\* main.go:520-523 and the like: if y+lineHeight > pageHeight-marginBottom
\* { pdf.AddPage(); y = marginTop }
PageCheck(y) ==
    IF y + Geometry.lineHeight > Geometry.pageHeight - Geometry.marginBottom
    THEN Geometry.marginTop
    ELSE y

\* after y += lineHeight: the page check exists in main.go only
NextLineY(variant, y) ==
    IF variant = "main.go" THEN PageCheck(y + Geometry.lineHeight)
    ELSE y + Geometry.lineHeight

\* pdf.SetXY(x, y); pdf.Write(lineHeight, text): an empty text draws nothing
Draw(drawn, text, x, y, font) ==
    IF text = <<>> THEN drawn
    ELSE Append(drawn, [text |-> text, x |-> x, y |-> y, font |-> font])

\* xStart, y := pdf.GetXY(); cursorX := xStart; currentFont := "normal";
\* words := strings.Fields(line)
InlineInit ==
    /\ LineIdle
    /\ ParseIdle
    /\ ReportIdle
    /\ CsvIdle
    /\ PollIdle
    /\ nVariant \in {"part_001", "main.go"}
    /\ nRules \in InlineRuleLists
    /\ nCharW \in CharWidths
    /\ \E line \in SeqsUpTo(InlineBytes, MaxInlineLen) : nWords = Fields(line)
    /\ nWord = <<>>
    /\ nFont = "normal"
    /\ nCursorX \in StartXs
    /\ nY = Geometry.marginTop
    /\ nDrawn = <<>>
    /\ nPc = "word"

\* for _, word := range words: take the next word and strip its delimiters
InlineTakeWord ==
    /\ nPc = "word"
    /\ nWords # <<>>
    /\ LET st == StripFrom(Head(nWords), "normal", nRules, 1)
       IN  /\ nWord' = st.word
           /\ nFont' = st.font
           /\ nPc' = IF st.panic THEN "panic" ELSE "loop"
    /\ nWords' = Tail(nWords)
    /\ UNCHANGED <<nVariant, nRules, nCharW, nCursorX, nY, nDrawn, notInline>>

\* part_001:193-218, one iteration of  for len(word) > 0
InlineFitPart001 ==
    /\ nPc = "loop"
    /\ nVariant = "part_001"
    /\ Len(nWord) > 0
    /\ LET fit0 == FitWithin(nWord, nCharW, maxWidth - nCursorX, 1)
           fit  == IF fit0 = 0 THEN 1 ELSE fit0
           x    == IF fit0 = 0 THEN Geometry.marginLeft ELSE nCursorX
           y    == IF fit0 = 0 THEN nY + Geometry.lineHeight ELSE nY
           rest == SubSeq(nWord, fit + 1, Len(nWord))
       IN  /\ nDrawn' = Draw(nDrawn, SubSeq(nWord, 1, fit), x, y, nFont)
           /\ nWord' = rest
           /\ nCursorX' = IF Len(rest) > 0 THEN Geometry.marginLeft
                          ELSE x + GetStringWidth(SubSeq(nWord, 1, fit), nCharW)
           /\ nY' = IF Len(rest) > 0 THEN y + Geometry.lineHeight ELSE y
    /\ UNCHANGED <<nVariant, nRules, nCharW, nWords, nFont, nPc, notInline>>

\* main.go:504-508: the word fits in what is left of the line
InlineFitsMain ==
    /\ nPc = "loop"
    /\ nVariant = "main.go"
    /\ Len(nWord) > 0
    /\ GetStringWidth(nWord, nCharW) <= maxWidth - nCursorX
    /\ nDrawn' = Draw(nDrawn, nWord, nCursorX, nY, nFont)
    /\ nCursorX' = nCursorX + GetStringWidth(nWord, nCharW) + GetStringWidth(<<" ">>, nCharW)
    /\ nWord' = <<>>
    /\ UNCHANGED <<nVariant, nRules, nCharW, nWords, nFont, nY, nPc, notInline>>

\* main.go:509-523: the word is wider than maxWidth and is split
InlineSplitMain ==
    /\ nPc = "loop"
    /\ nVariant = "main.go"
    /\ Len(nWord) > 0
    /\ GetStringWidth(nWord, nCharW) > maxWidth - nCursorX
    /\ GetStringWidth(nWord, nCharW) > maxWidth
    /\ LET fit == FitWithin(nWord, nCharW, maxWidth, 1)
       IN  /\ nDrawn' = Draw(nDrawn, SubSeq(nWord, 1, fit), nCursorX, nY, nFont)
           /\ nWord' = SubSeq(nWord, fit + 1, Len(nWord))
    /\ nCursorX' = Geometry.marginLeft
    /\ nY' = NextLineY(nVariant, nY)
    /\ UNCHANGED <<nVariant, nRules, nCharW, nWords, nFont, nPc, notInline>>

\* main.go:524-531: the word fits a line but not what is left of this one
InlineWrapMain ==
    /\ nPc = "loop"
    /\ nVariant = "main.go"
    /\ Len(nWord) > 0
    /\ GetStringWidth(nWord, nCharW) > maxWidth - nCursorX
    /\ GetStringWidth(nWord, nCharW) <= maxWidth
    /\ nCursorX' = Geometry.marginLeft
    /\ nY' = NextLineY(nVariant, nY)
    /\ UNCHANGED <<nVariant, nRules, nCharW, nWords, nWord, nFont, nDrawn, nPc, notInline>>

\* part_001:220-228 and main.go:534-544: the space after the word
InlineSpace ==
    /\ nPc = "loop"
    /\ Len(nWord) = 0
    /\ LET spaceWidth == GetStringWidth(<<" ">>, nCharW)
       IN  IF nCursorX + spaceWidth > maxWidth
           THEN /\ nCursorX' = Geometry.marginLeft
                /\ nY' = NextLineY(nVariant, nY)
           ELSE /\ nCursorX' = nCursorX + spaceWidth
                /\ nY' = nY
    /\ nPc' = "word"
    /\ UNCHANGED <<nVariant, nRules, nCharW, nWords, nWord, nFont, nDrawn, notInline>>

\* the range loop is over: pdf.SetXY(marginLeft, y+lineHeight)
InlineReturn ==
    /\ nPc = "word"
    /\ nWords = <<>>
    /\ nCursorX' = Geometry.marginLeft
    /\ nY' = nY + Geometry.lineHeight
    /\ nPc' = "done"
    /\ UNCHANGED <<nVariant, nRules, nCharW, nWords, nWord, nFont, nDrawn, notInline>>

InlineNext ==
    \/ InlineTakeWord
    \/ InlineFitPart001
    \/ InlineFitsMain
    \/ InlineSplitMain
    \/ InlineWrapMain
    \/ InlineSpace
    \/ InlineReturn

SpecInline == InlineInit /\ [][InlineNext]_vars

----------------------------------------------------------------------------
(* Properties of writeFormattedLineInline *)

\* the text of the fragments drawn from index k on, in order
RECURSIVE DrawnText(_, _)
DrawnText(drawn, k) ==
    IF k > Len(drawn) THEN <<>> ELSE drawn[k].text \o DrawnText(drawn, k + 1)

\* C4: the per-word loop terminates and writes every byte of the word once and
\* in order.  Every iteration draws a prefix of the word and keeps the rest;
\* and it either consumes at least one byte or moves an unchanged word from a
\* started line to a fresh one (the loop reads nothing but the word and
\* cursorX, so an iteration that leaves both as they are repeats for ever).
WordLoopProgress ==
    [][(nPc = "loop" /\ nPc' = "loop" /\ Len(nWord) > 0) =>
          /\ DrawnText(nDrawn', Len(nDrawn) + 1) \o nWord' = nWord
          /\ \/ Len(nWord') < Len(nWord)
             \/ nCursorX # Geometry.marginLeft /\ nCursorX' = Geometry.marginLeft
      ]_vars

----------------------------------------------------------------------------
(* generatePDF's rule table and parseStyled, src/unnamed/part_001:744-790   *)
(* and 868-881                                                               *)

\* most tokens (tags, letters, spaces) an input line of parseStyled is made of
MaxTokens == 4

TagBold == <<"<", "b", "o", "l", "d", ">">>

TagItalic == <<"<", "i", "t", "a", "l", "i", "c", ">">>

TagEndBold == <<"<", "/", "b", "o", "l", "d", ">">>

TagEndItalic == <<"<", "/", "i", "t", "a", "l", "i", "c", ">">>

TagBr == <<"<", "b", "r", ">">>

TagBrSlash == <<"<", "b", "r", " ", "/", ">">>

RecognizedTags == {TagBold, TagItalic, TagEndBold, TagEndItalic, TagBr, TagBrSlash}

\* the two bytes of the character U+00E9 in UTF-8, written in hexadecimal
EAcute == <<"c3", "a9">>

\* what an input line is made of: the six tags, a letter, a two-byte
\* character and a '<' that starts no tag
ParseTokens == RecognizedTags \cup {<<"A">>, EAcute, <<"<">>}

RECURSIVE Flatten(_)
Flatten(ss) == IF ss = <<>> THEN <<>> ELSE Head(ss) \o Flatten(Tail(ss))

\* the line of the spec's scenario: A<bold>B</bold>C<br>D
ScenarioLine ==
    <<"A">> \o TagBold \o <<"B">> \o TagEndBold \o <<"C">> \o TagBr \o <<"D">>

ParseLines == {Flatten(ts) : ts \in SeqsUpTo(ParseTokens, MaxTokens)} \cup {ScenarioLine}

\* strings.ToLower(r.Tag), on the tag names a style file uses here
ToLower(tag) ==
    CASE tag = "Bold" -> "bold"
      [] tag = "Italic" -> "italic"
      [] tag = "Normal" -> "normal"
      [] OTHER -> tag

\* for _, r := range style.Rules { if r.Font == name { rules[ToLower(r.Tag)] = name } }
RECURSIVE ApplyStyleRules(_, _, _, _)
ApplyStyleRules(rules, styleRules, name, k) ==
    IF k > Len(styleRules) THEN rules
    ELSE ApplyStyleRules(
             IF styleRules[k].Font = name
             THEN [rules EXCEPT ![ToLower(styleRules[k].Tag)] = name]
             ELSE rules,
             styleRules, name, k + 1)

\* for _, f := range files { name := <f.Name() without its extension>; ... }
RECURSIVE LoadFonts(_, _, _, _)
LoadFonts(rules, files, styleRules, k) ==
    IF k > Len(files) THEN rules
    ELSE LoadFonts(ApplyStyleRules(rules, styleRules, files[k], 1), files, styleRules, k + 1)

\* rules := map[string]string{"normal": "", "bold": "", "italic": ""} and the
\* loop over the font directory
BuildRules(files, styleRules) ==
    LoadFonts([normal |-> "", bold |-> "", italic |-> ""], files, styleRules, 1)

\* the font files of the report folder, by name without extension, in the
\* order os.ReadDir lists them
FontDirs == {<<>>, <<"Regular">>, <<"Bold", "Regular">>, <<"Bold", "Italic", "Regular">>}

\* style.Rules of style.xml
StyleRuleLists ==
    { <<>>,
      <<[Tag |-> "normal", Font |-> "Regular"], [Tag |-> "Bold", Font |-> "Bold"]>>,
      <<[Tag |-> "normal", Font |-> "Regular"], [Tag |-> "bold", Font |-> "Bold"],
        [Tag |-> "italic", Font |-> "Italic"]>> }

FontMaps == {BuildRules(f, sr) : f \in FontDirs, sr \in StyleRuleLists}

\* line[n:]
Drop(line, n) == SubSeq(line, n + 1, Len(line))

\* strings.Index(line, c) for a byte that occurs in line
RECURSIVE IndexFrom(_, _, _)
IndexFrom(line, c, i) ==
    IF i >= Len(line) THEN -1
    ELSE IF line[i + 1] = c THEN i
    ELSE IndexFrom(line, c, i + 1)

Index(line, c) == IndexFrom(line, c, 0)

\* the bytes of the modelled lines that are not ASCII
LeadBytes == {"c3"}

ContinuationBytes == {"a9", "83"}

\* utf8.RuneError encoded by string(r): U+FFFD
RuneErrorBytes == <<"ef", "bf", "bd">>

\* utf8.DecodeRuneInString(line) and string(r): an ASCII byte is a rune of
\* size 1, a lead byte followed by a continuation byte is a rune of size 2
\* that string(r) encodes back to the same bytes, and any other byte is
\* utf8.RuneError with size 1
DecodeRune(line) ==
    IF line[1] \in LeadBytes
    THEN IF Len(line) >= 2 /\ line[2] \in ContinuationBytes
         THEN [size |-> 2, text |-> <<line[1], line[2]>>]
         ELSE [size |-> 1, text |-> RuneErrorBytes]
    ELSE IF line[1] \in ContinuationBytes
         THEN [size |-> 1, text |-> RuneErrorBytes]
    ELSE [size |-> 1, text |-> <<line[1]>>]

\* string(line[0]) of main.go:897: the byte taken as a code point and encoded
\* in UTF-8, two bytes for a byte above 0x7f
StringOfByte(b) ==
    CASE b = "c3" -> <<"c3", "83">>
      [] b = "a9" -> <<"c2", "a9">>
      [] b = "83" -> <<"c2", "83">>
      [] OTHER -> <<b>>

\* a flush that gives every part the font of the first part
FlushPartFirstFont(out, buf, font, newLine) ==
    IF buf # <<>> \/ newLine
    THEN Append(out, [Text |-> buf, Font |-> IF out = <<>> THEN font ELSE out[1].Font,
                      NewLine |-> newLine])
    ELSE out

\* flush := func(newLine bool) { if buf != "" || newLine {
\*     out = append(out, part{Text: buf, Font: font, NewLine: newLine}); buf = "" } }
\* the parts the call appends to out
FlushPart(out, buf, font, newLine) ==
    IF buf # <<>> \/ newLine
    THEN Append(out, [Text |-> buf, Font |-> font, NewLine |-> newLine])
    ELSE out

\* for len(line) > 0 { switch { ... } }; flush(false); return out
RECURSIVE ParseLoop(_, _, _, _, _)
ParseLoop(line, rules, font, buf, out) ==
    IF Len(line) = 0 THEN FlushPart(out, buf, font, FALSE)
    ELSE IF HasPrefix(line, TagBold)
         THEN ParseLoop(Drop(line, 6), rules, rules.bold, <<>>,
                        FlushPart(out, buf, font, FALSE))
    ELSE IF HasPrefix(line, TagItalic)
         THEN ParseLoop(Drop(line, 8), rules, rules.italic, <<>>,
                        FlushPart(out, buf, font, FALSE))
    ELSE IF HasPrefix(line, TagEndBold) \/ HasPrefix(line, TagEndItalic)
         THEN ParseLoop(Drop(line, Index(line, ">") + 1), rules, rules.normal, <<>>,
                        FlushPart(out, buf, font, FALSE))
    ELSE IF HasPrefix(line, TagBr)
         THEN ParseLoop(Drop(line, 4), rules, font, <<>>,
                        FlushPart(out, buf, font, TRUE))
    ELSE IF HasPrefix(line, TagBrSlash)
         THEN ParseLoop(Drop(line, 6), rules, font, <<>>,
                        FlushPart(out, buf, font, TRUE))
    ELSE ParseLoop(Drop(line, DecodeRune(line).size), rules, font,
                   buf \o DecodeRune(line).text, out)

\* a parser that starts a line in the bold font
parseStyledFromBold(line, rules) == ParseLoop(line, rules, rules.bold, <<>>, <<>>)

\* font := rules["normal"]; var out []part; buf := ""
parseStyled(line, rules) == ParseLoop(line, rules, rules.normal, <<>>, <<>>)

\* main.go:876-881: flush := func() { if buf != "" {
\*     out = append(out, part{buf, font}); buf = "" } }
FlushPartMain(out, buf, font) ==
    IF buf # <<>> THEN Append(out, [Text |-> buf, Font |-> font]) ELSE out

\* main.go:882-902: the loop of the variant without <br>, which takes the
\* line byte by byte
RECURSIVE ParseLoopMain(_, _, _, _, _)
ParseLoopMain(line, rules, font, buf, out) ==
    IF Len(line) = 0 THEN FlushPartMain(out, buf, font)
    ELSE IF HasPrefix(line, TagBold)
         THEN ParseLoopMain(Drop(line, 6), rules, rules.bold, <<>>,
                            FlushPartMain(out, buf, font))
    ELSE IF HasPrefix(line, TagItalic)
         THEN ParseLoopMain(Drop(line, 8), rules, rules.italic, <<>>,
                            FlushPartMain(out, buf, font))
    ELSE IF HasPrefix(line, TagEndBold) \/ HasPrefix(line, TagEndItalic)
         THEN ParseLoopMain(Drop(line, Index(line, ">") + 1), rules, rules.normal, <<>>,
                            FlushPartMain(out, buf, font))
    ELSE ParseLoopMain(Drop(line, 1), rules, font, buf \o StringOfByte(line[1]), out)

\* main.go:872-903
parseStyledMain(line, rules) == ParseLoopMain(line, rules, rules.normal, <<>>, <<>>)

ParseInit ==
    /\ LineIdle
    /\ InlineIdle
    /\ ReportIdle
    /\ CsvIdle
    /\ PollIdle
    /\ pLine \in ParseLines
    /\ pRules \in FontMaps
    /\ pOut = <<>>
    /\ pVariant = ""
    /\ pPc = "call"

\* the call parseStyled(line, rules) of part_001 runs to its return
ParseCall ==
    /\ pPc = "call"
    /\ pOut' = parseStyled(pLine, pRules)
    /\ pVariant' = "part_001"
    /\ pPc' = "returned"
    /\ UNCHANGED <<pLine, pRules, notParse>>

\* the call parseStyled(line, rules) of main.go runs to its return
ParseCallMain ==
    /\ pPc = "call"
    /\ pOut' = parseStyledMain(pLine, pRules)
    /\ pVariant' = "main.go"
    /\ pPc' = "returned"
    /\ UNCHANGED <<pLine, pRules, notParse>>

ParseNext == ParseCall \/ ParseCallMain

SpecParse == ParseInit /\ [][ParseNext]_vars

----------------------------------------------------------------------------
(* Properties of parseStyled *)

\* C9: each <br> or <br /> makes parseStyled emit the pending text (if any)
\* as an ordinary part and then a separate part with NewLine = true and an
\* empty Text; the scenario line yields exactly the five parts
\* (A, normal), (B, bold), (C, normal), (break, no text), (D, normal).
BreakPartsCarryNoText ==
    (pPc = "returned" /\ pVariant = "part_001") =>
        /\ \A k \in DOMAIN pOut : pOut[k].NewLine => pOut[k].Text = <<>>
        /\ pLine = ScenarioLine =>
              /\ Len(pOut) = 5
              /\ pOut[3] = [Text |-> <<"C">>, Font |-> pRules.normal, NewLine |-> FALSE]
              /\ pOut[4].NewLine /\ pOut[4].Text = <<>>

----------------------------------------------------------------------------
(* wrap, writeText, writeTable and generatePDF, src/unnamed/part_001:719-910 *)

\* most tokens (tags, letters, spaces, newlines) of the text of a report
MaxReportTokens == 3

\* margin := 50.0 of writeText; writeTable uses the same 50 (and 100 = 2 * 50)
Margin == 50

\* fontSize of writeText when style.PDF.FontSize is 0
FontSize == 12

\* cellH := 20.0
CellH == 20

\* fontSize * 1.5, the advance per drawn line
LineStep == (FontSize * 3) \div 2

\* pageSize(style) of two small CUSTOM pages
PageSizes == {[w |-> 112, h |-> 118], [w |-> 130, h |-> 140]}

ReportTokens == {<<"A">>, <<" ">>, TagBold, TagBr, <<"\n">>}

\* a text whose first line leaves <bold> open: <bold>A, newline, A
OpenBoldContent == TagBold \o <<"A", "\n", "A">>

Contents == {Flatten(ts) : ts \in SeqsUpTo(ReportTokens, MaxReportTokens)} \cup {OpenBoldContent}

\* data["Table"]: the headers and the rows
TableRows == {<<<<"A">>>>, <<<<"A", " ", "A">>, <<"A">>>>, <<<<"A">>, <<"A">>, <<"A">>>>}

Tables ==
    [headers : {<<>>, <<<<"H">>>>, <<<<"H">>, <<"H">>>>},
     rows : {<<>>} \cup {<<r>> : r \in TableRows} \cup {<<r, q>> : r \in TableRows, q \in TableRows}]

\* pdf.MeasureTextWidth(s): every byte is 6 units wide
MeasureTextWidth(s) == Len(s) * 6

\* strings.Split(content, "\n")
RECURSIVE SplitFrom(_, _, _)
SplitFrom(s, i, cur) ==
    IF i > Len(s) THEN <<cur>>
    ELSE IF s[i] = "\n" THEN <<cur>> \o SplitFrom(s, i + 1, <<>>)
    ELSE SplitFrom(s, i + 1, Append(cur, s[i]))

Split(content) == SplitFrom(content, 1, <<>>)

\* strings.TrimSpace(s)
RECURSIVE TrimSpace(_)
TrimSpace(s) ==
    IF s = <<>> THEN s
    ELSE IF Head(s) = " " THEN TrimSpace(Tail(s))
    ELSE IF s[Len(s)] = " " THEN TrimSpace(SubSeq(s, 1, Len(s) - 1))
    ELSE s

\* the loop of wrap over words, from word k on
RECURSIVE WrapFrom(_, _, _, _, _)
WrapFrom(words, k, line, lines, maxW) ==
    IF k > Len(words)
    THEN (IF line # <<>> THEN Append(lines, line) ELSE lines)
    ELSE LET w    == words[k]
             test == TrimSpace(line \o <<" ">> \o w)
         IN  IF MeasureTextWidth(test) > maxW /\ line # <<>>
             THEN WrapFrom(words, k + 1, w, Append(lines, line), maxW)
             ELSE WrapFrom(words, k + 1,
                           IF line = <<>> THEN w ELSE line \o <<" ">> \o w,
                           lines, maxW)

\* wrap(pdf, text, font, size, maxW)
wrap(text, maxW) == WrapFrom(Fields(text), 1, <<>>, <<>>, maxW)

\* if y > pageH-margin { pdf.AddPage(); y = margin }
NeedsPage(y, pageH) == y > pageH - Margin

\* cellW := (pageW - 100) / float64(colCount)
CellW(pageW, colCount) == (pageW - 2 * Margin) \div colCount

\* one pdf.Text or pdf.CellWithOption call
Drawing(kind, text, font, x, y, page) ==
    [kind |-> kind, text |-> text, font |-> font, x |-> x, y |-> y, page |-> page]

\* the cells of one row (or the headers), drawn left to right at y
RowDrawings(kind, cells, x, y, cellW, page) ==
    [i \in 1..Len(cells) |-> Drawing(kind, cells[i], "Arial", x + (i - 1) * cellW, y, page)]

\* pdf.AddPage(); the rule table; y := writeText(&pdf, text, style, rules, w, h, 50)
ReportInit ==
    /\ LineIdle
    /\ InlineIdle
    /\ ParseIdle
    /\ CsvIdle
    /\ PollIdle
    /\ rPage \in PageSizes
    /\ rRules \in FontMaps
    /\ rContent \in Contents
    /\ rTable = <<>>
    /\ rLines = Split(rContent)
    /\ rParts = <<>>
    /\ rFont = ""
    /\ rWrapped = <<>>
    /\ rRows = <<>>
    /\ rColCount = 0
    /\ rY = Margin
    /\ rPages = 1
    /\ rDrawn = <<>>
    /\ rPc = "line"

\* for _, line := range strings.Split(content, "\n") { parts := parseStyled(line, rules)
TextTakeLine ==
    /\ rPc = "line"
    /\ rLines # <<>>
    /\ rParts' = parseStyled(Head(rLines), rRules)
    /\ rLines' = Tail(rLines)
    /\ rPc' = "part"
    /\ UNCHANGED <<rPage, rContent, rTable, rRules, rFont, rWrapped, rRows, rColCount, rY, rPages, rDrawn, notReport>>

\* if p.NewLine { y += fontSize * 1.5; continue }
TextBreak ==
    /\ rPc = "part"
    /\ rParts # <<>>
    /\ Head(rParts).NewLine
    /\ rY' = rY + LineStep
    /\ rParts' = Tail(rParts)
    /\ UNCHANGED <<rPage, rContent, rTable, rRules, rLines, rFont, rWrapped, rRows, rColCount, rPages, rDrawn, rPc, notReport>>

\* for _, l := range wrap(pdf, p.Text, p.Font, fontSize, pageW-2*margin)
TextWrapPart ==
    /\ rPc = "part"
    /\ rParts # <<>>
    /\ ~Head(rParts).NewLine
    /\ rWrapped' = wrap(Head(rParts).Text, rPage.w - 2 * Margin)
    /\ rFont' = Head(rParts).Font
    /\ rParts' = Tail(rParts)
    /\ rPc' = "wrap"
    /\ UNCHANGED <<rPage, rContent, rTable, rRules, rLines, rRows, rColCount, rY, rPages, rDrawn, notReport>>

\* the page check, pdf.SetFont, pdf.SetXY(margin, y), pdf.Text(l), y += fontSize * 1.5
TextDrawLine ==
    /\ rPc = "wrap"
    /\ rWrapped # <<>>
    /\ LET newPage == NeedsPage(rY, rPage.h)
           y       == IF newPage THEN Margin ELSE rY
           page    == IF newPage THEN rPages + 1 ELSE rPages
       IN  /\ rDrawn' = Append(rDrawn, Drawing("text", Head(rWrapped), rFont, Margin, y, page))
           /\ rY' = y + LineStep
           /\ rPages' = page
    /\ rWrapped' = Tail(rWrapped)
    /\ UNCHANGED <<rPage, rContent, rTable, rRules, rLines, rParts, rFont, rRows, rColCount, rPc, notReport>>

\* the loop over the wrapped lines of a part is over
TextPartDone ==
    /\ rPc = "wrap"
    /\ rWrapped = <<>>
    /\ rPc' = "part"
    /\ UNCHANGED <<rPage, rContent, rTable, rRules, rLines, rParts, rFont, rWrapped, rRows, rColCount, rY, rPages, rDrawn, notReport>>

\* the loop over the parts of a line is over
TextLineDone ==
    /\ rPc = "part"
    /\ rParts = <<>>
    /\ rPc' = "line"
    /\ UNCHANGED <<rPage, rContent, rTable, rRules, rLines, rParts, rFont, rWrapped, rRows, rColCount, rY, rPages, rDrawn, notReport>>

\* return y
TextReturn ==
    /\ rPc = "line"
    /\ rLines = <<>>
    /\ rPc' = "returned"
    /\ UNCHANGED <<rPage, rContent, rTable, rRules, rLines, rParts, rFont, rWrapped, rRows, rColCount, rY, rPages, rDrawn, notReport>>

\* data["Table"] is absent: return pdf.WritePdf(output)
TableAbsent ==
    /\ rPc = "returned"
    /\ rPc' = "done"
    /\ UNCHANGED <<rPage, rContent, rTable, rRules, rLines, rParts, rFont, rWrapped, rRows, rColCount, rY, rPages, rDrawn, notReport>>

\* writeTable: colCount := len(headers); if colCount == 0 { return y }
TableNoColumns ==
    /\ rPc = "returned"
    /\ \E t \in Tables : Len(t.headers) = 0 /\ rTable' = <<t>>
    /\ rPc' = "done"
    /\ UNCHANGED <<rPage, rContent, rRules, rLines, rParts, rFont, rWrapped, rRows, rColCount, rY, rPages, rDrawn, notReport>>

\* writeTable: the headers are drawn at the y that writeText returned; y += cellH
TableHeaders ==
    /\ rPc = "returned"
    /\ \E t \in Tables :
          /\ Len(t.headers) # 0
          /\ rColCount' = Len(t.headers)
          /\ rDrawn' = rDrawn \o RowDrawings("header", t.headers, Margin, rY,
                                             CellW(rPage.w, Len(t.headers)), rPages)
          /\ rRows' = t.rows
          /\ rTable' = <<t>>
    /\ rY' = rY + CellH
    /\ rPc' = "rows"
    /\ UNCHANGED <<rPage, rContent, rRules, rLines, rParts, rFont, rWrapped, rPages, notReport>>

\* for _, row := range rows: the cells of the row, y += cellH, the page check
TableRow ==
    /\ rPc = "rows"
    /\ rRows # <<>>
    /\ rDrawn' = rDrawn \o RowDrawings("cell", Head(rRows), Margin, rY,
                                       CellW(rPage.w, rColCount), rPages)
    /\ LET newPage == NeedsPage(rY + CellH, rPage.h)
       IN  /\ rY' = IF newPage THEN Margin ELSE rY + CellH
           /\ rPages' = IF newPage THEN rPages + 1 ELSE rPages
    /\ rRows' = Tail(rRows)
    /\ UNCHANGED <<rPage, rContent, rTable, rRules, rLines, rParts, rFont, rWrapped, rColCount, rPc, notReport>>

\* return y; return pdf.WritePdf(output)
TableReturn ==
    /\ rPc = "rows"
    /\ rRows = <<>>
    /\ rPc' = "done"
    /\ UNCHANGED <<rPage, rContent, rTable, rRules, rLines, rParts, rFont, rWrapped, rRows, rColCount, rY, rPages, rDrawn, notReport>>

ReportNext ==
    \/ TextTakeLine
    \/ TextBreak
    \/ TextWrapPart
    \/ TextDrawLine
    \/ TextPartDone
    \/ TextLineDone
    \/ TextReturn
    \/ TableAbsent
    \/ TableNoColumns
    \/ TableHeaders
    \/ TableRow
    \/ TableReturn

SpecReport == ReportInit /\ [][ReportNext]_vars

----------------------------------------------------------------------------
(* Properties of writeText and writeTable *)

\* C5: every line that writeText draws is drawn at a y with
\* y + lineHeight <= pageHeight - bottomMargin, over the whole content.
TextLinesFitAboveMargin ==
    \A k \in DOMAIN rDrawn :
        rDrawn[k].kind = "text" => rDrawn[k].y + LineStep <= rPage.h - Margin

\* C6: throughout one render, whatever is drawn (text line, table header,
\* table cell) is drawn at a y with y <= pageH - bottomMargin.
DrawnAboveBottomMargin ==
    \A k \in DOMAIN rDrawn : rDrawn[k].y <= rPage.h - Margin

\* the number of lines the longest-wrapping cell of a row wraps to at the
\* column width, at least 1
RECURSIVE MaxLines(_, _, _)
MaxLines(row, k, cellW) ==
    IF k > Len(row) THEN 1
    ELSE LET n    == Len(wrap(row[k], cellW))
             rest == MaxLines(row, k + 1, cellW)
         IN  IF n > rest THEN n ELSE rest

\* C7: a table row whose longest-wrapping cell needs k lines at the column
\* width moves y by exactly k line heights, unless a page break intervenes.
RowConsumesWrappedHeight ==
    [][(rPc = "rows" /\ rRows # <<>> /\ rRows' = Tail(rRows) /\ rPages' = rPages) =>
          rY' = rY + MaxLines(Head(rRows), 1, CellW(rPage.w, rColCount)) * CellH
      ]_vars

\* C8: at the y at which a table row is drawn, y + the row's height
\* <= pageHeight - bottomMargin.
RowsFitAboveMargin ==
    \A k \in DOMAIN rDrawn :
        rDrawn[k].kind = "cell" => rDrawn[k].y + CellH <= rPage.h - Margin

\* content with every recognized tag and every newline replaced by a space
RECURSIVE OutsideTags(_)
OutsideTags(s) ==
    IF s = <<>> THEN <<>>
    ELSE IF \E t \in RecognizedTags : HasPrefix(s, t)
         THEN LET t == CHOOSE u \in RecognizedTags : HasPrefix(s, u)
              IN  <<" ">> \o OutsideTags(Drop(s, Len(t)))
    ELSE IF Head(s) = "\n" THEN <<" ">> \o OutsideTags(Tail(s))
    ELSE <<Head(s)>> \o OutsideTags(Tail(s))

\* the words handed to pdf.Text, in the order of the calls
RECURSIVE TextWords(_, _)
TextWords(drawn, k) ==
    IF k > Len(drawn) THEN <<>>
    ELSE (IF drawn[k].kind = "text" THEN Fields(drawn[k].text) ELSE <<>>)
         \o TextWords(drawn, k + 1)

\* C10: when writeText has returned, the words handed to pdf.Text are the
\* words of the content outside the recognized tags, once each and in order.
TextNeverDropped ==
    rPc = "returned" => TextWords(rDrawn, 1) = Fields(OutsideTags(rContent))

\* C11: a table given without headers and with a non-empty first row is laid
\* out with len(rows[0]) columns and its rows are drawn.
HeaderlessTableUsesFirstRow ==
    (rPc = "done" /\ rTable # <<>> /\ rTable[1].headers = <<>>
        /\ rTable[1].rows # <<>> /\ rTable[1].rows[1] # <<>>) =>
        /\ rColCount = Len(rTable[1].rows[1])
        /\ \E k \in DOMAIN rDrawn : rDrawn[k].kind = "cell"

\* C12: no table cell is drawn at a column index >= columnCount, that is at
\* x >= origin.x + columnCount * colWidth.
CellsWithinColumns ==
    \A k \in DOMAIN rDrawn :
        rDrawn[k].kind = "cell" =>
            rDrawn[k].x < Margin + rColCount * CellW(rPage.w, rColCount)

----------------------------------------------------------------------------
(* csvToPDF, src/ficopdfgen/main.go:263-289, src/unnamed/part_000:202-229   *)
(* and src/unnamed/part_001:247-277                                         *)

\* most lines of the CSV data
MaxCsvLines == 3

\* a line of the data: blank, or one to three fields
CsvLines == {<<>>, <<"a">>, <<"a", "b">>, <<"a", "b", "c">>}

CsvVariants == {"main.go:263", "part_000:202", "part_001:247"}

\* the records of the data: csv.Reader skips blank lines
RECURSIVE Records(_)
Records(data) ==
    IF data = <<>> THEN <<>>
    ELSE IF Head(data) = <<>> THEN Records(Tail(data))
    ELSE <<Head(data)>> \o Records(Tail(data))

\* r.ReadAll() with FieldsPerRecord = 0: a record whose number of fields
\* differs from the first record's is an error (csv.ErrFieldCount)
ReadAll(data) ==
    LET recs == Records(data)
    IN  IF \E k \in DOMAIN recs : Len(recs[k]) # Len(recs[1])
        THEN [records |-> <<>>, err |-> TRUE]
        ELSE [records |-> recs, err |-> FALSE]

\* if err != nil || len(records) == 0 { return err }: part_001 has the test
\* on len(records), main.go:263 and part_000 test err only
ChecksEmpty(variant) == variant = "part_001:247"

\* the width the columns share: 270.0, or usableWidth (taken as 270 too)
CsvWidth == [total |-> 270, left |-> 10, top |-> 10]

\* the y of the first row: part_000 writes a title and pdf.Ln(12) first
CsvStartY(variant) == IF variant = "part_000:202" THEN CsvWidth.top + 12 ELSE CsvWidth.top

\* the advance per row: lineHeight := 6.0, or the cell height 7 of part_000
CsvRowStep(variant) == IF variant = "part_000:202" THEN 7 ELSE 6

\* the cells of one row, drawn left to right from xStart at y
CsvRowDrawings(row, colWidth, y) ==
    [i \in 1..Len(row) |-> [text |-> row[i], x |-> CsvWidth.left + (i - 1) * colWidth, y |-> y]]

CsvInit ==
    /\ LineIdle
    /\ InlineIdle
    /\ ParseIdle
    /\ ReportIdle
    /\ PollIdle
    /\ cVariant \in CsvVariants
    /\ cData \in SeqsUpTo(CsvLines, MaxCsvLines)
    /\ cRows = <<>>
    /\ cColCount = 0
    /\ cY = 0
    /\ cDrawn = <<>>
    /\ cPc = "start"

\* records, err := r.ReadAll(); if err != nil { return err }
CsvReadError ==
    /\ cPc = "start"
    /\ ReadAll(cData).err
    /\ cPc' = "error"
    /\ UNCHANGED <<cVariant, cData, cRows, cColCount, cY, cDrawn, notCsv>>

\* if err != nil || len(records) == 0 { return err }
CsvNoRecordsReturn ==
    /\ cPc = "start"
    /\ ~ReadAll(cData).err
    /\ Len(ReadAll(cData).records) = 0
    /\ ChecksEmpty(cVariant)
    /\ cPc' = "returned"
    /\ UNCHANGED <<cVariant, cData, cRows, cColCount, cY, cDrawn, notCsv>>

\* colWidth := 270.0 / float64(len(records[0])) with no record: records[0]
\* is out of range and the goroutine panics
CsvNoRecordsPanic ==
    /\ cPc = "start"
    /\ ~ReadAll(cData).err
    /\ Len(ReadAll(cData).records) = 0
    /\ ~ChecksEmpty(cVariant)
    /\ cPc' = "panic"
    /\ UNCHANGED <<cVariant, cData, cRows, cColCount, cY, cDrawn, notCsv>>

\* pdf.AddPage(); colWidth := 270.0 / float64(len(records[0]))
CsvLayout ==
    /\ cPc = "start"
    /\ ~ReadAll(cData).err
    /\ Len(ReadAll(cData).records) > 0
    /\ cColCount' = Len(ReadAll(cData).records[1])
    /\ cRows' = ReadAll(cData).records
    /\ cY' = CsvStartY(cVariant)
    /\ cPc' = "rows"
    /\ UNCHANGED <<cVariant, cData, cDrawn, notCsv>>

\* for _, row := range records: the cells of the row, then the next line
CsvRow ==
    /\ cPc = "rows"
    /\ cRows # <<>>
    /\ cDrawn' = cDrawn \o CsvRowDrawings(Head(cRows), CsvWidth.total \div cColCount, cY)
    /\ cY' = cY + CsvRowStep(cVariant)
    /\ cRows' = Tail(cRows)
    /\ UNCHANGED <<cVariant, cData, cColCount, cPc, notCsv>>

\* return pdf.OutputFileAndClose(output)
CsvReturn ==
    /\ cPc = "rows"
    /\ cRows = <<>>
    /\ cPc' = "returned"
    /\ UNCHANGED <<cVariant, cData, cRows, cColCount, cY, cDrawn, notCsv>>

CsvNext ==
    \/ CsvReadError
    \/ CsvNoRecordsReturn
    \/ CsvNoRecordsPanic
    \/ CsvLayout
    \/ CsvRow
    \/ CsvReturn

SpecCsv == CsvInit /\ [][CsvNext]_vars

\* C13: csvToPDF given data with zero records returns without panicking and
\* draws no cell; a zero column count is never used as a divisor.
EmptyCsvRendersNothing ==
    /\ cPc # "panic"
    /\ (cPc # "start" /\ Records(cData) = <<>>) => cPc = "returned" /\ cDrawn = <<>>
    /\ cPc = "rows" => cColCount > 0

\* C13, for writeTable: with zero columns nothing of the table is drawn and
\* the y that writeText returned is returned unchanged
EmptyTableRendersNothing ==
    [][(rPc = "returned" /\ rTable' # <<>> /\ rTable'[1].headers = <<>>) =>
          rDrawn' = rDrawn /\ rY' = rY /\ rPc' = "done"]_vars

\* C14: when no font file matches the rule for "bold" (or "italic"), the text
\* inside <bold> (or <italic>) gets the font id of rules["normal"]: every part
\* carries the normal font or a bold / italic font that was loaded.
UnresolvedFontFallsBack ==
    pPc = "returned" =>
        \A k \in DOMAIN pOut :
            pOut[k].Font \in {pRules.normal} \cup ({pRules.bold, pRules.italic} \ {""})

----------------------------------------------------------------------------
(* Properties of the delimiter stripping of writeFormattedLineInline *)

\* the rules whose delimiter is at both ends of the word
RulesAround(word) ==
    {k \in DOMAIN nRules :
        HasPrefix(word, nRules[k].Delimiter) /\ HasSuffix(word, nRules[k].Delimiter)}

\* C15: when more than one rule matches a word, the font applied is that of
\* the earliest-declared matching rule; a later rule never overrides it.
EarliestRuleWins ==
    [][(nPc = "word" /\ nWords # <<>> /\ nPc' = "loop" /\ RulesAround(Head(nWords)) # {}) =>
          nFont' = nRules[Least(RulesAround(Head(nWords)))].Font
      ]_vars

----------------------------------------------------------------------------
(* Properties of both variants of parseStyled *)

\* the line with every occurrence of a recognized tag removed
RECURSIVE WithoutTags(_)
WithoutTags(s) ==
    IF s = <<>> THEN <<>>
    ELSE IF \E t \in RecognizedTags : HasPrefix(s, t)
         THEN LET t == CHOOSE u \in RecognizedTags : HasPrefix(s, u)
              IN  WithoutTags(Drop(s, Len(t)))
    ELSE <<Head(s)>> \o WithoutTags(Tail(s))

\* the Text fields of the parts, concatenated in order
RECURSIVE TextOf(_, _)
TextOf(out, k) == IF k > Len(out) THEN <<>> ELSE out[k].Text \o TextOf(out, k + 1)

\* C16: the concatenation of the Text fields of the parts that parseStyled
\* returns is the line with every recognized tag removed; a '<' that starts
\* no tag is kept.
PartsSpellLineWithoutTags ==
    pPc = "returned" => TextOf(pOut, 1) = WithoutTags(pLine)

\* the text is made of whole characters of the input alphabet: ASCII bytes
\* and the two-byte character, each with the bytes it has in the input
RECURSIVE WholeCharacters(_)
WholeCharacters(text) ==
    IF text = <<>> THEN TRUE
    ELSE IF HasPrefix(text, EAcute) THEN WholeCharacters(Drop(text, 2))
    ELSE /\ Head(text) \notin LeadBytes \cup ContinuationBytes \cup {"c2", "ef", "bf", "bd"}
         /\ WholeCharacters(Tail(text))

\* C17: no multi-byte character is split or altered: every part begins and
\* ends on a character boundary and holds each character with the bytes it
\* has in the line.
CharactersStayWhole ==
    pPc = "returned" => \A k \in DOMAIN pOut : WholeCharacters(pOut[k].Text)

----------------------------------------------------------------------------
(* Properties of the font across the lines of writeText *)

\* the line starts with an ordinary byte, not with a recognized tag
StartsWithText(line) ==
    line # <<>> /\ ~\E t \in RecognizedTags : HasPrefix(line, t)

----------------------------------------------------------------------------
(* Properties of the style register of parseStyled *)

\* the tags that change the font, and the tags the variant recognizes
StyleTags == {TagBold, TagItalic, TagEndBold, TagEndItalic}

TagsOf(variant) == IF variant = "main.go" THEN StyleTags ELSE RecognizedTags

\* the register after tag t: an opening tag sets its font, a closing tag
\* sets rules["normal"] whatever was open, a break leaves the register alone
RegisterAfter(t, reg, rules) ==
    IF t = TagBold THEN rules.bold
    ELSE IF t = TagItalic THEN rules.italic
    ELSE IF t \in {TagEndBold, TagEndItalic} THEN rules.normal
    ELSE reg

\* the fonts of the runs of text of the line, a run being a longest stretch
\* of bytes between tags: the register at the first byte of each run
RECURSIVE RunFonts(_, _, _, _, _)
RunFonts(line, rules, tags, reg, inRun) ==
    IF line = <<>> THEN <<>>
    ELSE IF \E t \in tags : HasPrefix(line, t)
         THEN LET t == CHOOSE u \in tags : HasPrefix(line, u)
              IN  RunFonts(Drop(line, Len(t)), rules, tags, RegisterAfter(t, reg, rules), FALSE)
    ELSE (IF inRun THEN <<>> ELSE <<reg>>) \o RunFonts(Tail(line), rules, tags, reg, TRUE)

\* the fonts of the parts that carry text, in order
RECURSIVE TextPartFonts(_, _)
TextPartFonts(out, k) ==
    IF k > Len(out) THEN <<>>
    ELSE (IF out[k].Text # <<>> THEN <<out[k].Font>> ELSE <<>>) \o TextPartFonts(out, k + 1)

\* C19: parseStyled keeps one active-style register: every run of text has
\* the font of the most recent opening tag if no closing tag has occurred
\* since it, and rules["normal"] otherwise; any closing tag reverts to normal.
SingleStyleRegister ==
    pPc = "returned" =>
        TextPartFonts(pOut, 1) = RunFonts(pLine, pRules, TagsOf(pVariant), pRules.normal, FALSE)

\* <bold>A</italic>A was parsed: the closing tag that does not match its
\* opener has reverted the font to normal
SingleStyleRegisterWitness ==
    /\ pPc = "returned"
    /\ pLine = TagBold \o <<"A">> \o TagEndItalic \o <<"A">>
    /\ pRules.bold # pRules.normal
    /\ Len(pOut) = 2
    /\ pOut[1].Font = pRules.bold
    /\ pOut[2].Font = pRules.normal

----------------------------------------------------------------------------
(* Properties of a delimiter pair around several words *)

\* d occurs nowhere in the word
Without(word, d) ==
    \A i \in 1..Len(word) : ~HasPrefix(Drop(word, i - 1), d)

\* the words are D w1, w2, ..., wn D with n >= 2 for the delimiter of the
\* only rule: D opens the first word, closes the last and occurs nowhere else
SpanForm(words, d) ==
    /\ Len(words) >= 2
    /\ Len(d) > 0
    /\ HasPrefix(words[1], d)
    /\ Len(words[1]) > Len(d)
    /\ Without(Drop(words[1], Len(d)), d)
    /\ HasSuffix(words[Len(words)], d)
    /\ Len(words[Len(words)]) > Len(d)
    /\ Without(SubSeq(words[Len(words)], 1, Len(words[Len(words)]) - Len(d)), d)
    /\ \A k \in 2..(Len(words) - 1) : Without(words[k], d)

\* C20: a delimiter used twice around several words applies the rule's font
\* to every word between the two occurrences and is not drawn: the first
\* word is taken without its delimiter and in the rule's font.
DelimiterPairSpansWords ==
    [][(nPc = "word" /\ nDrawn = <<>> /\ Len(nRules) = 1
          /\ SpanForm(nWords, nRules[1].Delimiter)) =>
          /\ nPc' = "loop"
          /\ nFont' = nRules[1].Font
          /\ nWord' = Drop(Head(nWords), Len(nRules[1].Delimiter))
      ]_vars

----------------------------------------------------------------------------
(* Properties of the cursor of writeText and writeFormattedLineInline *)

\* the content is one logical line without breaks
OneLogicalLine ==
    \A i \in 1..Len(rContent) :
        /\ rContent[i] # "\n"
        /\ ~HasPrefix(Drop(rContent, i - 1), TagBr)
        /\ ~HasPrefix(Drop(rContent, i - 1), TagBrSlash)

\* drawings k and k + 1 are two runs of text that fit on one visual line
\* together, even with a space between them (so they are not two lines that
\* wrap produced from one run)
RunsFitTogether(k) ==
    /\ rDrawn[k].kind = "text"
    /\ rDrawn[k + 1].kind = "text"
    /\ (rDrawn[k].x - Margin)
          + MeasureTextWidth(rDrawn[k].text \o <<" ">> \o rDrawn[k + 1].text)
          <= rPage.w - 2 * Margin

\* C21: two consecutive runs of one logical line that together fit within
\* the maximum line width are drawn on the same visual line, the second
\* starting at the x where the first ended.
RunsShareVisualLine ==
    OneLogicalLine =>
        \A k \in 1..(Len(rDrawn) - 1) :
            RunsFitTogether(k) =>
                /\ rDrawn[k + 1].y = rDrawn[k].y
                /\ rDrawn[k + 1].page = rDrawn[k].page
                /\ rDrawn[k + 1].x = rDrawn[k].x + MeasureTextWidth(rDrawn[k].text)

\* C22: a word that fits in the remaining space is drawn at the cursor and,
\* when the next word is considered, cursorX has advanced by the word's
\* width plus one space width.  (Without rules every word is drawn, so the
\* last fragment drawn is the word the space follows.)
CursorAdvancesWordPlusSpace ==
    [][(nPc = "loop" /\ Len(nWord) = 0 /\ nPc' = "word" /\ nY' = nY
          /\ nRules = <<>> /\ nDrawn # <<>>
          /\ nDrawn[Len(nDrawn)].y = nY
          /\ nDrawn[Len(nDrawn)].x + GetStringWidth(nDrawn[Len(nDrawn)].text, nCharW) <= maxWidth) =>
          nCursorX' = nDrawn[Len(nDrawn)].x
                        + GetStringWidth(nDrawn[Len(nDrawn)].text, nCharW)
                        + GetStringWidth(<<" ">>, nCharW)
      ]_vars

\* C23: the delimiter stripping never slices out of range, also for a word
\* that is a single occurrence of the delimiter.
StrippingStaysInRange == nPc # "panic"


----------------------------------------------------------------------------
(* main's polling loop, processFile and the uploads, in the SSH variant    *)
(* (src/ficopdfgen/main.go:45-175) and the SFTP variant                    *)
(* (src/ficopdfgen/main.go:353-462 and 646-683)                            *)

\* the ticks of ticker.C that the loop takes
MaxCycles == 2

\* names that the remote directory can hold
ShortName == <<"a">>

ATxt == <<"a", ".", "t", "x", "t">>

ACsv == <<"a", ".", "c", "s", "v">>

BUpperTxt == <<"b", ".", "T", "X", "T">>

HiddenCsv == <<".", "c", "s", "v">>

APdf == <<"a", ".", "p", "d", "f">>

BPdf == <<"b", ".", "p", "d", "f">>

SourceNames == {ShortName, ATxt, ACsv, BUpperTxt, HiddenCsv}

PdfNames == {APdf, BPdf}

\* the order in which the directory is listed
DirOrder == <<HiddenCsv, ShortName, ACsv, APdf, ATxt, BUpperTxt, BPdf>>

PollVariants == {"ssh", "sftp"}

\* strings.ToLower of one byte of a file name
LowerByte(c) ==
    CASE c = "T" -> "t"
      [] c = "X" -> "x"
      [] OTHER -> c

\* strings.ToLower(f[len(f)-4:]) once len(f) >= 4
LowerExt(f) == [k \in 1..4 |-> LowerByte(f[Len(f) - 4 + k])]

\* the 0-based index of the final "." of name below i, or -1
RECURSIVE LastDot(_, _)
LastDot(name, i) ==
    IF i = 0 THEN -1
    ELSE IF name[i] = "." THEN i - 1
    ELSE LastDot(name, i - 1)

\* path.Ext and filepath.Ext of a name without separators
Ext(name) ==
    IF LastDot(name, Len(name)) < 0 THEN <<>>
    ELSE SubSeq(name, LastDot(name, Len(name)) + 1, Len(name))

\* strings.TrimSuffix
TrimSuffix(name, suffix) ==
    IF HasSuffix(name, suffix) THEN SubSeq(name, 1, Len(name) - Len(suffix)) ELSE name

\* pdfName := strings.TrimSuffix(filename, path.Ext(filename)) + ".pdf"
PdfName(filename) == TrimSuffix(filename, Ext(filename)) \o <<".", "p", "d", "f">>

\* is the name present in the remote directory
Present(f) ==
    \/ f \in mSources
    \/ f \in PdfNames /\ mPdfs[f] # "absent"

\* listRemoteFiles: the entries that do not start with "." (ReadDir filtered
\* by HasPrefix in the SFTP variant, the output of ls in the SSH variant)
listRemoteFiles ==
    SelectSeq(DirOrder, LAMBDA f : Present(f) /\ ~HasPrefix(f, <<".">>))

\* the extension filter of the SSH main
AcceptsSsh(f) ==
    HasSuffix(f, <<".", "t", "x", "t">>) \/ HasSuffix(f, <<".", "c", "s", "v">>)

\* the extension filter of the SFTP main, for a name that can be sliced
AcceptsSftp(f) ==
    LowerExt(f) = <<".", "t", "x", "t">> \/ LowerExt(f) = <<".", "c", "s", "v">>

\* f[len(f)-4:] panics with slice bounds out of range
SlicePanics(f) == Len(f) < 4

Accepts(f) == IF mVariant = "ssh" THEN AcceptsSsh(f) ELSE AcceptsSftp(f)

\* the goroutines that wg counts
Tracked == {p \in mProcs : p.tracked}

PollInit ==
    /\ LineIdle
    /\ InlineIdle
    /\ ParseIdle
    /\ ReportIdle
    /\ CsvIdle
    /\ mVariant \in PollVariants
    /\ mSources \in SUBSET SourceNames
    /\ mPdfs = [f \in PdfNames |-> "absent"]
    /\ mLocal = {}
    /\ mFiles = <<>>
    /\ mProcs = {}
    /\ mCycle = 0
    /\ mPc = "tick"

\* files, err := listRemoteFiles(...); if err != nil { continue }
MainListError ==
    /\ mPc = "tick"
    /\ mCycle < MaxCycles
    /\ mCycle' = mCycle + 1
    /\ UNCHANGED <<mVariant, mSources, mPdfs, mLocal, mFiles, mProcs, mPc, notPoll>>

\* if len(files) == 0 { continue }, which only the SFTP main has
MainNoFiles ==
    /\ mPc = "tick"
    /\ mCycle < MaxCycles
    /\ mVariant = "sftp"
    /\ listRemoteFiles = <<>>
    /\ mCycle' = mCycle + 1
    /\ UNCHANGED <<mVariant, mSources, mPdfs, mLocal, mFiles, mProcs, mPc, notPoll>>

\* var wg sync.WaitGroup; for _, f := range files
MainList ==
    /\ mPc = "tick"
    /\ mCycle < MaxCycles
    /\ mVariant = "sftp" => listRemoteFiles # <<>>
    /\ mCycle' = mCycle + 1
    /\ mFiles' = listRemoteFiles
    /\ mPc' = "range"
    /\ UNCHANGED <<mVariant, mSources, mPdfs, mLocal, mProcs, notPoll>>

\* ext := strings.ToLower(f[len(f)-4:]) for a name of fewer than four bytes
MainPanic ==
    /\ mPc = "range"
    /\ mFiles # <<>>
    /\ mVariant = "sftp"
    /\ SlicePanics(Head(mFiles))
    /\ mPc' = "panic"
    /\ UNCHANGED <<mVariant, mSources, mPdfs, mLocal, mFiles, mProcs, mCycle, notPoll>>

\* wg.Add(1); go func(file string) { defer wg.Done(); processFile(...) }(f)
MainSpawn ==
    /\ mPc = "range"
    /\ mFiles # <<>>
    /\ mVariant = "sftp" => ~SlicePanics(Head(mFiles))
    /\ Accepts(Head(mFiles))
    /\ mProcs' = mProcs \cup
           {[file |-> Head(mFiles), cycle |-> mCycle, pc |-> "start", tracked |-> TRUE]}
    /\ mFiles' = Tail(mFiles)
    /\ UNCHANGED <<mVariant, mSources, mPdfs, mLocal, mCycle, mPc, notPoll>>

\* a name that the filter does not accept
MainSkip ==
    /\ mPc = "range"
    /\ mFiles # <<>>
    /\ mVariant = "sftp" => ~SlicePanics(Head(mFiles))
    /\ ~Accepts(Head(mFiles))
    /\ mFiles' = Tail(mFiles)
    /\ UNCHANGED <<mVariant, mSources, mPdfs, mLocal, mProcs, mCycle, mPc, notPoll>>

\* wg.Wait() returns and the loop waits for the next tick
MainWait ==
    /\ mPc = "range"
    /\ mFiles = <<>>
    /\ Tracked = {}
    /\ mPc' = "tick"
    /\ UNCHANGED <<mVariant, mSources, mPdfs, mLocal, mFiles, mProcs, mCycle, notPoll>>

\* a goroutine that can take a step: a panic of main ends them all
Running(p) == p \in mProcs /\ mPc # "panic"

\* if _, err := sftpClient.Stat(remotePDFPath); err == nil { return }
SftpStatExists(p) ==
    /\ Running(p)
    /\ mVariant = "sftp"
    /\ p.pc = "start"
    /\ mPdfs[PdfName(p.file)] # "absent"
    /\ mProcs' = mProcs \ {p}
    /\ UNCHANGED <<mVariant, mSources, mPdfs, mLocal, mFiles, mCycle, mPc, notPoll>>

\* data, err := readRemoteFile(...); if err != nil { return }
ReadFails(p) ==
    /\ Running(p)
    /\ p.pc = "start"
    /\ mVariant = "sftp" => mPdfs[PdfName(p.file)] = "absent"
    /\ mProcs' = mProcs \ {p}
    /\ UNCHANGED <<mVariant, mSources, mPdfs, mLocal, mFiles, mCycle, mPc, notPoll>>

\* the SSH processFile has read the source and calls txtToPDF or csvToPDF
SshRead(p) ==
    /\ Running(p)
    /\ mVariant = "ssh"
    /\ p.pc = "start"
    /\ p.file \in mSources
    /\ mProcs' = (mProcs \ {p}) \cup {[p EXCEPT !.pc = "render"]}
    /\ UNCHANGED <<mVariant, mSources, mPdfs, mLocal, mFiles, mCycle, mPc, notPoll>>

\* the SFTP processFile has read the source, starts go func() { ... }() for
\* the rendering and the upload, and returns: wg.Done() runs
SftpRead(p) ==
    /\ Running(p)
    /\ mVariant = "sftp"
    /\ p.pc = "start"
    /\ mPdfs[PdfName(p.file)] = "absent"
    /\ p.file \in mSources
    /\ mProcs' = (mProcs \ {p}) \cup {[p EXCEPT !.pc = "render", !.tracked = FALSE]}
    /\ UNCHANGED <<mVariant, mSources, mPdfs, mLocal, mFiles, mCycle, mPc, notPoll>>

\* txtToPDF or csvToPDF returns an error
RenderFails(p) ==
    /\ Running(p)
    /\ p.pc = "render"
    /\ mProcs' = mProcs \ {p}
    /\ UNCHANGED <<mVariant, mSources, mPdfs, mLocal, mFiles, mCycle, mPc, notPoll>>

\* txtToPDF or csvToPDF has written localPDF
RenderDone(p) ==
    /\ Running(p)
    /\ p.pc = "render"
    /\ mLocal' = mLocal \cup {PdfName(p.file)}
    /\ mProcs' = (mProcs \ {p}) \cup {[p EXCEPT !.pc = "upload"]}
    /\ UNCHANGED <<mVariant, mSources, mPdfs, mFiles, mCycle, mPc, notPoll>>

\* uploadPDFSFTP returns an error: os.ReadFile or client.Create fails and the
\* remote directory is as before, or f.Write fails in the created file
SftpUploadFails(p) ==
    /\ Running(p)
    /\ mVariant = "sftp"
    /\ p.pc = "upload"
    /\ \E created \in BOOLEAN :
           mPdfs' = IF created THEN [mPdfs EXCEPT ![PdfName(p.file)] = "empty"] ELSE mPdfs
    /\ mProcs' = mProcs \ {p}
    /\ UNCHANGED <<mVariant, mSources, mLocal, mFiles, mCycle, mPc, notPoll>>

\* uploadPDFSFTP writes the bytes of localPDF to the remote directory
SftpUpload(p) ==
    /\ Running(p)
    /\ mVariant = "sftp"
    /\ p.pc = "upload"
    /\ mPdfs' = [mPdfs EXCEPT ![PdfName(p.file)] = "pdf"]
    /\ mProcs' = mProcs \ {p}
    /\ UNCHANGED <<mVariant, mSources, mLocal, mFiles, mCycle, mPc, notPoll>>

\* data, _ := os.ReadFile(localPDF): the bytes of the PDF, or none when the
\* read fails, since the error is dropped
ReadLocal(readOk) == IF readOk THEN "pdf" ELSE "empty"

\* uploadPDFAndDelete, whose "cat > dir/pdf" fails: rm does not run
SshUploadFails(p) ==
    /\ Running(p)
    /\ mVariant = "ssh"
    /\ p.pc = "upload"
    /\ mProcs' = mProcs \ {p}
    /\ UNCHANGED <<mVariant, mSources, mPdfs, mLocal, mFiles, mCycle, mPc, notPoll>>

\* uploadPDFAndDelete, whose "cat > dir/pdf" writes data and whose
\* "rm oldFile" then removes the source
SshUploadAndDelete(p) ==
    /\ Running(p)
    /\ mVariant = "ssh"
    /\ p.pc = "upload"
    /\ \E readOk \in BOOLEAN :
           mPdfs' = [mPdfs EXCEPT ![PdfName(p.file)] = ReadLocal(readOk)]
    /\ mSources' = mSources \ {p.file}
    /\ mProcs' = mProcs \ {p}
    /\ UNCHANGED <<mVariant, mLocal, mFiles, mCycle, mPc, notPoll>>

PollNext ==
    \/ MainListError
    \/ MainNoFiles
    \/ MainList
    \/ MainPanic
    \/ MainSpawn
    \/ MainSkip
    \/ MainWait
    \/ \E p \in mProcs : SftpStatExists(p)
    \/ \E p \in mProcs : ReadFails(p)
    \/ \E p \in mProcs : SshRead(p)
    \/ \E p \in mProcs : SftpRead(p)
    \/ \E p \in mProcs : RenderFails(p)
    \/ \E p \in mProcs : RenderDone(p)
    \/ \E p \in mProcs : SftpUploadFails(p)
    \/ \E p \in mProcs : SftpUpload(p)
    \/ \E p \in mProcs : SshUploadFails(p)
    \/ \E p \in mProcs : SshUploadAndDelete(p)

SpecPoll == PollInit /\ [][PollNext]_vars

\* the conversions that are running, each writing its localPDF
Rendering == {p \in mProcs : p.pc = "render"}

\* C24: no two conversions that run at the same time write the same local PDF
\* path, and when wg.Wait() has returned and main waits for the next tick no
\* render or upload that the cycle started is still running.
ConversionsWriteDistinctPaths ==
    /\ \A p, q \in Rendering : PdfName(p.file) = PdfName(q.file) => p = q
    /\ mPc = "tick" => mProcs = {}

\* C25: whenever a step removes a source file from the remote directory, the
\* bytes of its generated PDF are in the remote directory after that step.
SourceRemovedAfterPdfWritten ==
    [][\A f \in mSources : f \notin mSources' => mPdfs'[PdfName(f)] = "pdf"]_vars

\* C26: the extension filter of the polling loop never aborts the program,
\* whatever names listRemoteFiles returns.
FilterNeverAborts == mPc # "panic"

====
